---- MODULE Spec2Model ----
(***************************************************************************)
(* A model of app.py, the Streamlit script of the AI email assistant.      *)
(*                                                                         *)
(* Text is a sequence of characters.  A character is a one-element string; *)
(* the three characters that cannot be written inside a TLA+ string are    *)
(* named: BT is the backtick, DQ the double quote, NL the line feed.       *)
(* A Python value (what json.loads returns, what the handler reads) is a   *)
(* record [t, s, n, k]: t its type, s its characters (a str), n its number *)
(* (an int; 1 or 0 for a bool), k its items (a list) or its keys and       *)
(* values in turn (a dict, in insertion order).                            *)
(***************************************************************************)
EXTENDS Integers, Sequences, FiniteSets, TLC

VARIABLES
    apiKeySet,       \* OPENAI_API_KEY is set; client is None otherwise
    gmail_available, \* credentials.json exists
    email_text,      \* st.session_state["email_text"]
    gmail_messages,  \* st.session_state["gmail_messages"]
    input_mode,      \* the "Email source" radio
    prefs,           \* the four sidebar selectboxes
    pc,              \* "ready": the script run has ended; "calling": it is
                     \* blocked in client.chat.completions.create;
                     \* "fetching": it is inside get_gmail_message_body
    event,           \* the widget event that started the current script run
    request,         \* the completion call in flight, or NoRequest
    callsThisRun,    \* completion calls issued by the current script run
    outcome,         \* how the completion call of this run ended
    result,          \* what analyze_and_reply returned in this run
    view,            \* what the run drew of the analysis
    shown,           \* the messages (st.error, st.warning, ...) of this run
    raised,          \* the exception the inbox code of this run raised, if any
    payload,         \* the payload this run handed to get_gmail_message_body
    body_text        \* what get_gmail_message_body returned in this run

vars == <<apiKeySet, gmail_available, email_text, gmail_messages, input_mode,
          prefs, pc, event, request, callsThisRun, outcome, result, view,
          shown, raised, payload, body_text>>

-----------------------------------------------------------------------------
(* Characters and str methods                                              *)

BT == "<backtick>"
DQ == "<quote>"
NL == "\n"
SP == " "
TAB == "\t"

\* A character by its code point: the printable ASCII characters are
\* themselves, the others are named by their number.
Ascii == <<SP, "!", DQ, "#", "$", "%", "&", "'", "(", ")", "*", "+", ",", "-", ".", "/",
           "0", "1", "2", "3", "4", "5", "6", "7", "8", "9", ":", ";", "<", "=", ">", "?",
           "@", "A", "B", "C", "D", "E", "F", "G", "H", "I", "J", "K", "L", "M", "N", "O",
           "P", "Q", "R", "S", "T", "U", "V", "W", "X", "Y", "Z", "[", "\\", "]", "^", "_",
           BT, "a", "b", "c", "d", "e", "f", "g", "h", "i", "j", "k", "l", "m", "n", "o",
           "p", "q", "r", "s", "t", "u", "v", "w", "x", "y", "z", "{", "|", "}", "~">>

CharOf(cp) ==
    IF cp = 9 THEN TAB
    ELSE IF cp = 10 THEN NL
    ELSE IF cp >= 32 /\ cp <= 126 THEN Ascii[cp - 31]
    ELSE "<U+" \o ToString(cp) \o ">"

CR == CharOf(13)

\* the json scanner skips these
Whitespace == {SP, NL, TAB, CR}

\* the characters below U+0020, which a JSON string may not hold
ControlChars == {CharOf(cp) : cp \in 0..31}

\* str.strip() removes the characters of str.isspace()
PyWhitespace ==
    {CharOf(cp) : cp \in (9..13) \cup (28..32) \cup {133, 160, 5760} \cup
                          (8192..8202) \cup {8232, 8233, 8239, 8287, 12288}}

LowerLetters == <<"a","b","c","d","e","f","g","h","i","j","k","l","m",
                  "n","o","p","q","r","s","t","u","v","w","x","y","z">>
UpperLetters == <<"A","B","C","D","E","F","G","H","I","J","K","L","M",
                  "N","O","P","Q","R","S","T","U","V","W","X","Y","Z">>
DigitChars == <<"0","1","2","3","4","5","6","7","8","9">>

IndexIn(c, seq) ==
    IF \E i \in 1..Len(seq) : seq[i] = c
    THEN CHOOSE i \in 1..Len(seq) : seq[i] = c
    ELSE 0

LowerChar(c) ==
    IF IndexIn(c, UpperLetters) > 0 THEN LowerLetters[IndexIn(c, UpperLetters)] ELSE c

UpperChar(c) ==
    IF IndexIn(c, LowerLetters) > 0 THEN UpperLetters[IndexIn(c, LowerLetters)] ELSE c

\* str.lower()
Lower(s) == [i \in 1..Len(s) |-> LowerChar(s[i])]

\* str.capitalize(): the first character upper-cased, the rest lower-cased
Capitalize(s) ==
    [i \in 1..Len(s) |-> IF i = 1 THEN UpperChar(s[i]) ELSE LowerChar(s[i])]

\* str.startswith(p)
StartsWith(s, p) == Len(s) >= Len(p) /\ SubSeq(s, 1, Len(p)) = p

RECURSIVE LStripSet(_, _)
LStripSet(s, cs) ==
    IF s # <<>> /\ Head(s) \in cs THEN LStripSet(Tail(s), cs) ELSE s

RECURSIVE RStripSet(_, _)
RStripSet(s, cs) ==
    IF s # <<>> /\ s[Len(s)] \in cs THEN RStripSet(SubSeq(s, 1, Len(s) - 1), cs) ELSE s

\* str.strip(chars): every leading and trailing character of the set goes
StripSet(s, cs) == RStripSet(LStripSet(s, cs), cs)

\* str.strip()
Strip(s) == StripSet(s, PyWhitespace)

\* s[n:]
DropFirst(s, n) == IF Len(s) <= n THEN <<>> ELSE SubSeq(s, n + 1, Len(s))

-----------------------------------------------------------------------------
(* Python values                                                           *)

StrV(s)  == [t |-> "str",  s |-> s,    n |-> 0, k |-> <<>>]
NumV(n)  == [t |-> "int",  s |-> <<>>, n |-> n, k |-> <<>>]
BoolV(b) == [t |-> "bool", s |-> <<>>, n |-> IF b THEN 1 ELSE 0, k |-> <<>>]
NoneV    == [t |-> "None", s |-> <<>>, n |-> 0, k |-> <<>>]
ListV(k) == [t |-> "list", s |-> <<>>, n |-> 0, k |-> k]
DictV(k) == [t |-> "dict", s |-> <<>>, n |-> 0, k |-> k]

\* bool(v): None, False, 0, "", [] and {} are falsy
Truthy(v) ==
    CASE v.t = "None" -> FALSE
      [] v.t = "bool" -> v.n = 1
      [] v.t = "int"  -> v.n # 0
      [] v.t = "str"  -> v.s # <<>>
      [] OTHER        -> v.k # <<>>

\* the place of key in a dict's k (its value follows it), or 0
KeyIndex(k, key) ==
    IF \E i \in 1..Len(k) : i % 2 = 1 /\ k[i] = StrV(key)
    THEN CHOOSE i \in 1..Len(k) : i % 2 = 1 /\ k[i] = StrV(key)
    ELSE 0

\* d[key] = val: a repeated key keeps its place and takes the later value
DictSet(k, key, val) ==
    IF KeyIndex(k, key) > 0
    THEN [k EXCEPT ![KeyIndex(k, key) + 1] = val]
    ELSE k \o <<StrV(key), val>>

HasKey(d, key) == KeyIndex(d.k, key) > 0

\* dict.get(key, default)
Get(d, key, default) ==
    IF HasKey(d, key) THEN d.k[KeyIndex(d.k, key) + 1] ELSE default

-----------------------------------------------------------------------------
(* json.loads, as the scanner of the json module reads the model's         *)
(* characters: objects, arrays, strings without escapes, integers and the  *)
(* literals null, true and false.  Positions are 1-based here; the         *)
(* JSONDecodeError reports them 0-based.                                    *)

Ok(v, end)    == [ok |-> TRUE,  v |-> v,     end |-> end, msg |-> ""]
Bad(msg, pos) == [ok |-> FALSE, v |-> NoneV, end |-> pos, msg |-> msg]

RECURSIVE SkipWs(_, _)
SkipWs(s, i) == IF i <= Len(s) /\ s[i] \in Whitespace THEN SkipWs(s, i + 1) ELSE i

At(s, i, c) == i <= Len(s) /\ s[i] = c

Literal(s, i, word) == i + Len(word) - 1 <= Len(s) /\ SubSeq(s, i, i + Len(word) - 1) = word

\* scanstring: i is the place after the opening quote
RECURSIVE ScanString(_, _, _)
ScanString(s, i, begin) ==
    IF i > Len(s) THEN Bad("Unterminated string starting at", begin)
    ELSE IF s[i] = DQ THEN Ok(StrV(SubSeq(s, begin + 1, i - 1)), i + 1)
    ELSE IF s[i] \in ControlChars THEN Bad("Invalid control character at", i)
    ELSE ScanString(s, i + 1, begin)

IsDigit(c) == IndexIn(c, DigitChars) > 0

RECURSIVE ScanDigits(_, _, _)
ScanDigits(s, i, acc) ==
    IF i <= Len(s) /\ IsDigit(s[i])
    THEN ScanDigits(s, i + 1, (10 * acc) + (IndexIn(s[i], DigitChars) - 1))
    ELSE [n |-> acc, end |-> i]

\* _match_number: -?(0|[1-9][0-9]*)
ScanNumber(s, i) ==
    LET neg == At(s, i, "-")
        j   == IF neg THEN i + 1 ELSE i
    IN  IF j > Len(s) \/ ~IsDigit(s[j]) THEN Bad("Expecting value", i)
        ELSE IF s[j] = "0" THEN Ok(NumV(0), j + 1)
        ELSE LET d == ScanDigits(s, j, 0)
             IN  Ok(NumV(IF neg THEN 0 - d.n ELSE d.n), d.end)

RECURSIVE ScanOnce(_, _)
RECURSIVE ParseMembers(_, _, _)
RECURSIVE ParseItems(_, _, _)

\* _parse_object: i is the place of a key's opening quote, if there is one
ParseMembers(s, i, acc) ==
    IF ~At(s, i, DQ)
    THEN Bad("Expecting property name enclosed in double quotes", i)
    ELSE
    LET key == ScanString(s, i + 1, i)
    IN  IF ~key.ok THEN key
        ELSE
        LET c == SkipWs(s, key.end)
        IN  IF ~At(s, c, ":") THEN Bad("Expecting ':' delimiter", c)
            ELSE
            LET val == ScanOnce(s, SkipWs(s, c + 1))
            IN  IF ~val.ok THEN val
                ELSE
                LET e    == SkipWs(s, val.end)
                    acc2 == DictSet(acc, key.v.s, val.v)
                IN  IF At(s, e, "}") THEN Ok(DictV(acc2), e + 1)
                    ELSE IF ~At(s, e, ",") THEN Bad("Expecting ',' delimiter", e)
                    ELSE ParseMembers(s, SkipWs(s, e + 1), acc2)

\* _parse_array: i is the place of an item
ParseItems(s, i, acc) ==
    LET val == ScanOnce(s, i)
    IN  IF ~val.ok THEN val
        ELSE
        LET e    == SkipWs(s, val.end)
            acc2 == Append(acc, val.v)
        IN  IF At(s, e, "]") THEN Ok(ListV(acc2), e + 1)
            ELSE IF ~At(s, e, ",") THEN Bad("Expecting ',' delimiter", e)
            ELSE ParseItems(s, SkipWs(s, e + 1), acc2)

\* scan_once
ScanOnce(s, i) ==
    IF i > Len(s) THEN Bad("Expecting value", i)
    ELSE CASE s[i] = DQ  -> ScanString(s, i + 1, i)
           [] s[i] = "{" -> IF At(s, SkipWs(s, i + 1), "}")
                            THEN Ok(DictV(<<>>), SkipWs(s, i + 1) + 1)
                            ELSE ParseMembers(s, SkipWs(s, i + 1), <<>>)
           [] s[i] = "[" -> IF At(s, SkipWs(s, i + 1), "]")
                            THEN Ok(ListV(<<>>), SkipWs(s, i + 1) + 1)
                            ELSE ParseItems(s, SkipWs(s, i + 1), <<>>)
           [] s[i] = "n" -> IF Literal(s, i, <<"n","u","l","l">>)
                            THEN Ok(NoneV, i + 4) ELSE Bad("Expecting value", i)
           [] s[i] = "t" -> IF Literal(s, i, <<"t","r","u","e">>)
                            THEN Ok(BoolV(TRUE), i + 4) ELSE Bad("Expecting value", i)
           [] s[i] = "f" -> IF Literal(s, i, <<"f","a","l","s","e">>)
                            THEN Ok(BoolV(FALSE), i + 5) ELSE Bad("Expecting value", i)
           [] OTHER      -> ScanNumber(s, i)

\* json.loads(s): the value, or the JSONDecodeError (msg and 1-based place)
JsonLoads(s) ==
    LET r == ScanOnce(s, SkipWs(s, 1))
    IN  IF ~r.ok THEN r
        ELSE IF SkipWs(s, r.end) # Len(s) + 1 THEN Bad("Extra data", SkipWs(s, r.end))
        ELSE r

-----------------------------------------------------------------------------
(* analyze_and_reply                                                       *)
(* The text of a message the script builds from literals is kept as one    *)
(* element per literal piece; text that comes from outside (the email, the *)
(* model's response) is kept character by character.                       *)

Fence == <<BT, BT, BT>>
JsonLabel == <<"j", "s", "o", "n">>

\* str(e) of a JSONDecodeError(msg, doc, pos):
\* "%s: line %d column %d (char %d)", pos counted from 0
LineNo(doc, pos0) == Cardinality({i \in 1..pos0 : doc[i] = NL}) + 1

ColNo(doc, pos0) ==
    LET nls == {i \in 1..pos0 : doc[i] = NL}
    IN  IF nls = {} THEN pos0 + 1
        ELSE pos0 - ((CHOOSE i \in nls : \A j \in nls : j <= i) - 1)

JSONDecodeErrorStr(msg, doc, pos) ==
    <<msg, ": line ", ToString(LineNo(doc, pos - 1)), " column ",
      ToString(ColNo(doc, pos - 1)), " (char ", ToString(pos - 1), ")">>

\* a variant of Cleaned that leaves out .lower() at line 281
CleanedCaseSensitive(raw) ==
    LET c0 == Strip(raw)
    IN  IF StartsWith(c0, Fence)
        THEN LET c1 == StripSet(c0, {BT})
             IN  IF StartsWith(c1, JsonLabel)
                 THEN Strip(DropFirst(c1, 4))
                 ELSE c1
        ELSE c0

\* lines 278-283: what is left of raw_content for the second json.loads
Cleaned(raw) ==
    LET c0 == Strip(raw)
    IN  IF StartsWith(c0, Fence)
        THEN LET c1 == StripSet(c0, {BT})
             IN  IF StartsWith(Lower(c1), JsonLabel)
                 THEN Strip(DropFirst(c1, 4))
                 ELSE c1
        ELSE c0

\* what the except clause of line 288 puts in the string it returns
ApiErrorText(excText) == <<"Error while calling OpenAI API: ">> \o excText

NotConfiguredText == <<"Error: OpenAI client is not configured. Check your API key.">>

\* What the provider can do with a completion call: return a response whose
\* message content is a text, return one whose content is None, or raise.
TextOutcome(text)  == [kind |-> "text",   text |-> text]
NoContentOutcome   == [kind |-> "none",   text |-> <<>>]
RaiseOutcome(text) == [kind |-> "raise",  text |-> text]

\* a variant of ParseContent that gives up quietly: an empty object where
\* the second json.loads fails
ParseContentLenient(content) ==
    LET raw    == Strip(content)
        first  == JsonLoads(raw)
        second == JsonLoads(Cleaned(raw))
    IN  IF first.ok THEN [ok |-> TRUE, v |-> first.v, exc |-> <<>>]
        ELSE IF second.ok THEN [ok |-> TRUE, v |-> second.v, exc |-> <<>>]
        ELSE [ok |-> TRUE, v |-> DictV(<<>>), exc |-> <<>>]

\* lines 271-286: the response's content to the value returned, or the
\* exception that reaches line 288
ParseContent(content) ==
    LET raw   == Strip(content)
        first == JsonLoads(raw)
    IN  IF first.ok THEN [ok |-> TRUE, v |-> first.v, exc |-> <<>>]
        ELSE LET cleaned == Cleaned(raw)
                 second  == JsonLoads(cleaned)
             IN  IF second.ok THEN [ok |-> TRUE, v |-> second.v, exc |-> <<>>]
                 ELSE [ok |-> FALSE, v |-> NoneV,
                       exc |-> JSONDecodeErrorStr(second.msg, cleaned, second.end)]

\* lines 261-289: what analyze_and_reply returns once the call has ended
AnalyzeReturn(o) ==
    CASE o.kind = "raise" -> StrV(ApiErrorText(o.text))
      [] o.kind = "none"  ->
            StrV(ApiErrorText(<<"'NoneType' object has no attribute 'strip'">>))
      [] OTHER ->
            LET p == ParseContent(o.text)
            IN  IF p.ok THEN p.v ELSE StrV(ApiErrorText(p.exc))

-----------------------------------------------------------------------------
(* The analysis display, lines 413-470                                     *)

Unset == [t |-> "unset", s |-> <<>>, n |-> 0, k |-> <<>>]
NA == StrV(<<"N", "/", "A">>)

K_language     == <<"l","a","n","g","u","a","g","e">>
K_urgency      == <<"u","r","g","e","n","c","y">>
K_sentiment    == <<"s","e","n","t","i","m","e","n","t">>
K_category     == <<"c","a","t","e","g","o","r","y">>
K_summary      == <<"s","u","m","m","a","r","y">>
K_action_items == <<"a","c","t","i","o","n","_","i","t","e","m","s">>
K_replies      == <<"r","e","p","l","i","e","s">>
K_subject      == <<"s","u","b","j","e","c","t">>
K_body         == <<"b","o","d","y">>

NoReplyWarning == [level |-> "warning",
                   text  |-> <<"No reply options were returned by the AI.">>]

\* a variant of OrElse that leaves out "or default"
OrElseNothing(x, default) == x

\* x or default
OrElse(x, default) == IF Truthy(x) THEN x ELSE default

\* whether iter(v) and len(v) work on v
Iterable(v) == v.t \in {"list", "str", "dict"}

\* what "for x in v" yields: a list's items, a str's characters, a dict's keys
Elements(v) ==
    CASE v.t = "list" -> v.k
      [] v.t = "str"  -> [i \in 1..Len(v.s) |-> StrV(<<v.s[i]>>)]
      [] v.t = "dict" -> [i \in 1..(Len(v.k) \div 2) |-> v.k[2 * i - 1]]
      [] OTHER        -> <<>>

\* left + right of two values, defined when both are str
Concat(a, b) == StrV(a.s \o b.s)

\* lines 454-470, one tab: the panel, or the exception the tab's code raises
Panel(reply_data) ==
    IF reply_data.t # "dict"
    THEN [exc |-> "AttributeError", line |-> 456,
          subject |-> Unset, body |-> Unset, combined |-> Unset]
    ELSE
    LET subject == Get(reply_data, K_subject, StrV(<<>>))
        body    == Get(reply_data, K_body, StrV(<<>>))
    IN  IF ~Truthy(subject)
        THEN [exc |-> "", line |-> 0,
              subject |-> subject, body |-> body, combined |-> body]
        ELSE IF subject.t # "str" \/ body.t # "str"
        THEN [exc |-> "TypeError", line |-> 465,
              subject |-> subject, body |-> body, combined |-> Unset]
        ELSE [exc |-> "", line |-> 0, subject |-> subject, body |-> body,
              combined |-> Concat(Concat(subject, StrV(<<NL, NL>>)), body)]

\* the tabs filled in order, up to and with the first whose code raises
RECURSIVE Panels(_, _)
Panels(elems, acc) ==
    IF elems = <<>> THEN acc
    ELSE LET p == Panel(Head(elems))
         IN  IF p.exc # "" THEN Append(acc, p)
             ELSE Panels(Tail(elems), Append(acc, p))

EmptyView ==
    [language |-> Unset, urgency |-> Unset, sentiment |-> Unset,
     category |-> Unset, summary |-> Unset, action_items |-> Unset,
     items |-> <<>>, replies |-> Unset, panels |-> <<>>,
     warned |-> FALSE, exc |-> "", line |-> 0]

Raised(v, exc, line) == [v EXCEPT !.exc = exc, !.line = line]

\* lines 431-470, reached once the four metrics are drawn
ShowDetails(res, v0) ==
    LET summary      == OrElse(Get(res, K_summary, NoneV), StrV(<<>>))
        action_items == OrElse(Get(res, K_action_items, NoneV), ListV(<<>>))
        replies      == OrElse(Get(res, K_replies, NoneV), ListV(<<>>))
        v1 == [v0 EXCEPT !.summary = summary, !.action_items = action_items]
    IN  IF Truthy(action_items) /\ ~Iterable(action_items)
        THEN Raised(v1, "TypeError", 440)
        ELSE
        LET v2 == [v1 EXCEPT !.items = Elements(action_items), !.replies = replies]
        IN  IF ~Truthy(replies) THEN [v2 EXCEPT !.warned = TRUE]
            ELSE IF ~Iterable(replies) THEN Raised(v2, "TypeError", 451)
            ELSE LET ps   == Panels(Elements(replies), <<>>)
                     last == ps[Len(ps)]
                 IN  IF last.exc # ""
                     THEN Raised([v2 EXCEPT !.panels = ps], last.exc, last.line)
                     ELSE [v2 EXCEPT !.panels = ps]

\* lines 413-470: what the run draws of a result that is not a str, with the
\* exception (exc, line) that ends the run early when one is raised
ShowAnalysis(res) ==
    IF res.t # "dict" THEN Raised(EmptyView, "AttributeError", 416)
    ELSE
    LET lang      == Get(res, K_language, NA)
        urgency   == Get(res, K_urgency, NA)
        sentiment == Get(res, K_sentiment, NA)
        category  == Get(res, K_category, NA)
        v1 == [EmptyView EXCEPT !.language = lang]
    IN  IF urgency.t # "str" THEN Raised(v1, "AttributeError", 425)
        ELSE
        LET v2 == [v1 EXCEPT !.urgency = StrV(Capitalize(urgency.s))]
        IN  IF sentiment.t # "str" THEN Raised(v2, "AttributeError", 427)
            ELSE ShowDetails(res,
                    [v2 EXCEPT !.sentiment = StrV(Capitalize(sentiment.s)),
                               !.category = category])

-----------------------------------------------------------------------------
(* get_gmail_message_body                                                  *)
(* A payload is [body, parts]; a part is [mimeType, body, parts]; a body   *)
(* is [hasData, data], data the base64url text of its "data" member.       *)

B64Alphabet ==
    <<"A","B","C","D","E","F","G","H","I","J","K","L","M","N","O","P","Q","R","S",
      "T","U","V","W","X","Y","Z","a","b","c","d","e","f","g","h","i","j","k","l",
      "m","n","o","p","q","r","s","t","u","v","w","x","y","z","0","1","2","3","4",
      "5","6","7","8","9","+","/">>

\* urlsafe_b64decode reads "-" as "+" and "_" as "/"
B64Value(c) ==
    IF c = "-" THEN 62 ELSE IF c = "_" THEN 63 ELSE IndexIn(c, B64Alphabet) - 1

\* binascii.a2b_base64, not strict: characters outside the alphabet are
\* skipped, padding that completes a quad ends the data, and data left in
\* an incomplete quad is an error (binascii.Error)
RECURSIVE A2B(_, _, _, _, _, _)
A2B(data, i, quad, left, pads, out) ==
    IF i > Len(data)
    THEN [ok |-> quad = 0, bytes |-> out, quad |-> quad]
    ELSE IF data[i] = "="
    THEN IF quad >= 2 /\ quad + pads + 1 >= 4
         THEN [ok |-> TRUE, bytes |-> out, quad |-> 0]
         ELSE A2B(data, i + 1, quad, left, IF quad >= 2 THEN pads + 1 ELSE pads, out)
    ELSE IF B64Value(data[i]) < 0
    THEN A2B(data, i + 1, quad, left, pads, out)
    ELSE LET v == B64Value(data[i])
         IN  CASE quad = 0 -> A2B(data, i + 1, 1, v, 0, out)
               [] quad = 1 -> A2B(data, i + 1, 2, v % 16, 0,
                                  Append(out, (left * 4) + (v \div 16)))
               [] quad = 2 -> A2B(data, i + 1, 3, v % 4, 0,
                                  Append(out, (left * 16) + (v \div 4)))
               [] OTHER    -> A2B(data, i + 1, 0, 0, 0,
                                  Append(out, (left * 64) + v))

B64Decode(data) == A2B(data, 1, 0, 0, 0, <<>>)

\* str(e) of the binascii.Error of a decode that is not ok
B64ErrorStr(d) ==
    IF d.quad = 1
    THEN <<"Invalid base64-encoded string: number of data characters (",
           ToString(((Len(d.bytes) \div 3) * 4) + 1),
           ") cannot be 1 more than a multiple of 4">>
    ELSE <<"Incorrect padding">>

IsCont(b) == b >= 128 /\ b <= 191

\* bytes.decode("UTF-8", errors="ignore"): the code points, the bytes of
\* every ill-formed sequence dropped
RECURSIVE Utf8Ignore(_, _, _)
Utf8Ignore(bs, i, out) ==
    IF i > Len(bs) THEN out
    ELSE
    LET ch   == bs[i]
        left == Len(bs) - i + 1
        b2   == bs[i + 1]
        b3   == bs[i + 2]
        b4   == bs[i + 3]
    IN  CASE ch < 128 -> Utf8Ignore(bs, i + 1, Append(out, ch))
          [] ch >= 128 /\ ch < 194 -> Utf8Ignore(bs, i + 1, out)
          [] ch >= 194 /\ ch < 224 ->
                IF left < 2 THEN out
                ELSE IF ~IsCont(b2) THEN Utf8Ignore(bs, i + 1, out)
                ELSE Utf8Ignore(bs, i + 2, Append(out, ((ch % 32) * 64) + (b2 % 64)))
          [] ch >= 224 /\ ch < 240 ->
                IF left < 2 THEN out
                ELSE IF ~IsCont(b2) \/ (ch = 224 /\ b2 < 160) \/ (ch = 237 /\ b2 >= 160)
                THEN Utf8Ignore(bs, i + 1, out)
                ELSE IF left < 3 THEN out
                ELSE IF ~IsCont(b3) THEN Utf8Ignore(bs, i + 2, out)
                ELSE Utf8Ignore(bs, i + 3,
                        Append(out, ((ch % 16) * 4096) + ((b2 % 64) * 64) + (b3 % 64)))
          [] ch >= 240 /\ ch < 245 ->
                IF left < 2 THEN out
                ELSE IF ~IsCont(b2) \/ (ch = 240 /\ b2 < 144) \/ (ch = 244 /\ b2 >= 144)
                THEN Utf8Ignore(bs, i + 1, out)
                ELSE IF left < 3 THEN out
                ELSE IF ~IsCont(b3) THEN Utf8Ignore(bs, i + 2, out)
                ELSE IF left < 4 THEN out
                ELSE IF ~IsCont(b4) THEN Utf8Ignore(bs, i + 3, out)
                ELSE Utf8Ignore(bs, i + 4,
                        Append(out, ((ch % 8) * 262144) + ((b2 % 64) * 4096)
                                    + ((b3 % 64) * 64) + (b4 % 64)))
          [] OTHER -> Utf8Ignore(bs, i + 1, out)

\* decode_data, lines 154-159: the text, or (not ok) the text of the
\* binascii.Error it raises
decode_data(data) ==
    LET d == B64Decode(data)
    IN  IF ~d.ok THEN [ok |-> FALSE, text |-> B64ErrorStr(d)]
        ELSE LET cps == Utf8Ignore(d.bytes, 1, <<>>)
             IN  [ok |-> TRUE, text |-> Strip([j \in 1..Len(cps) |-> CharOf(cps[j])])]

HasData(part, mime) == part.mimeType = mime /\ part.body.hasData

\* the first part of the given type that has data, or 0
FirstPart(parts, mime) ==
    IF \E i \in 1..Len(parts) : HasData(parts[i], mime)
    THEN CHOOSE i \in 1..Len(parts) :
            HasData(parts[i], mime) /\ \A j \in 1..(i - 1) : ~HasData(parts[j], mime)
    ELSE 0

\* lines 151-182: the body text of a payload, or the exception of decode_data
get_gmail_message_body(pl) ==
    IF pl.body.hasData THEN decode_data(pl.body.data)
    ELSE
    LET p     == FirstPart(pl.parts, "text/plain")
        plain == IF p > 0 THEN decode_data(pl.parts[p].body.data)
                 ELSE [ok |-> TRUE, text |-> <<>>]
        h     == FirstPart(pl.parts, "text/html")
    IN  IF ~plain.ok THEN plain
        ELSE IF plain.text # <<>> THEN plain
        ELSE IF h > 0 THEN decode_data(pl.parts[h].body.data)
        ELSE [ok |-> TRUE, text |-> <<>>]

-----------------------------------------------------------------------------
(* The inputs the model draws from                                         *)

MaxEmailLen == 2
MaxTicks == 3
MaxParts == 2

\* what the user may type into the text area: the texts of at most
\* MaxEmailLen characters, each a space or a letter
EmailInputs == UNION {[1..k -> {SP, "a"}] : k \in 0..MaxEmailLen}

\* texts a completion may come back with
FullObject ==
    <<"{",DQ,"l","a","n","g","u","a","g","e",DQ,":",DQ,"e","n",DQ,",",DQ,
      "u","r","g","e","n","c","y",DQ,":",DQ,"l","o","w",DQ,",",DQ,"s","e",
      "n","t","i","m","e","n","t",DQ,":",DQ,"n","e","u","t","r","a","l",DQ,
      ",",DQ,"c","a","t","e","g","o","r","y",DQ,":",DQ,"i","n","q","u","i",
      "r","y",DQ,",",DQ,"s","u","m","m","a","r","y",DQ,":",DQ,"s",DQ,",",DQ,
      "a","c","t","i","o","n","_","i","t","e","m","s",DQ,":","[",DQ,"a",DQ,
      "]",",",DQ,"r","e","p","l","i","e","s",DQ,":","[","{",DQ,"s","u","b",
      "j","e","c","t",DQ,":",DQ,"R","e",DQ,",",DQ,"b","o","d","y",DQ,":",DQ,
      "o","k",DQ,"}","]","}">>
EmptyObject ==
    <<"{","}">>
PartialObject ==
    <<"{",DQ,"u","r","g","e","n","c","y",DQ,":",DQ,"H","I","G","H",DQ,",",
      DQ,"s","e","n","t","i","m","e","n","t",DQ,":",DQ,"m","i","x","e","d",
      DQ,"}">>
NullUrgency ==
    <<"{",DQ,"u","r","g","e","n","c","y",DQ,":","n","u","l","l","}">>
NumberSentiment ==
    <<"{",DQ,"u","r","g","e","n","c","y",DQ,":",DQ,"l","o","w",DQ,",",DQ,
      "s","e","n","t","i","m","e","n","t",DQ,":","3","}">>
NullLists ==
    <<"{",DQ,"s","u","m","m","a","r","y",DQ,":","n","u","l","l",",",DQ,"a",
      "c","t","i","o","n","_","i","t","e","m","s",DQ,":","n","u","l","l",
      ",",DQ,"r","e","p","l","i","e","s",DQ,":","n","u","l","l","}">>
EmptyReplies ==
    <<"{",DQ,"s","u","m","m","a","r","y",DQ,":",DQ,"s",DQ,",",DQ,"r","e",
      "p","l","i","e","s",DQ,":","[","]","}">>
NumberItems ==
    <<"{",DQ,"a","c","t","i","o","n","_","i","t","e","m","s",DQ,":","5","}">>
NumberReplies ==
    <<"{",DQ,"r","e","p","l","i","e","s",DQ,":","5","}">>
NumberReply ==
    <<"{",DQ,"r","e","p","l","i","e","s",DQ,":","[","1","]","}">>
NumberSubject ==
    <<"{",DQ,"r","e","p","l","i","e","s",DQ,":","[","{",DQ,"s","u","b","j",
      "e","c","t",DQ,":","1",",",DQ,"b","o","d","y",DQ,":",DQ,"b",DQ,"}",
      "]","}">>
TwoReplies ==
    <<"{",DQ,"r","e","p","l","i","e","s",DQ,":","[","{",DQ,"b","o","d","y",
      DQ,":",DQ,"b",DQ,"}",",","{",DQ,"s","u","b","j","e","c","t",DQ,":",DQ,
      "c",DQ,",",DQ,"b","o","d","y",DQ,":",DQ,"d",DQ,"}","]","}">>
ArrayText ==
    <<"[","]">>
NumberText ==
    <<"5">>
NullText ==
    <<"n","u","l","l">>
TrueText ==
    <<"t","r","u","e">>
StringText ==
    <<DQ,"h","i",DQ>>
ProseText ==
    <<"S","o","r","r","y">>
CutObject ==
    <<"{",DQ,"u","r","g","e","n","c","y",DQ,":",DQ,"l","o","w",DQ>>
EmptyText ==
    <<>>

Bodies ==
    {FullObject, EmptyObject, PartialObject, NullUrgency, NumberSentiment,
     NullLists, EmptyReplies, NumberItems, NumberReplies, NumberReply,
     NumberSubject, TwoReplies, ArrayText, NumberText, NullText, TrueText,
     StringText, ProseText, CutObject, EmptyText}

Ticks(n) == [i \in 1..n |-> BT]

Labels ==
    {<<>>, JsonLabel, <<"J","S","O","N">>, <<"J","s","o","n">>, <<"j","s">>,
     <<"j","s","o","n","c">>, <<"t","e","x","t">>}

Seps == {<<>>, <<NL>>}

\* a text inside a fence of o opening and c closing backticks, the label
\* right after the opening ones
Wrap(o, label, sep, text, c) == Ticks(o) \o label \o sep \o text \o sep \o Ticks(c)

ProviderErrors == {<<"Connection error.">>}

\* every way a completion call may end that the model tries
AllOutcomes ==
    {TextOutcome(Wrap(o, l, sep, b, c)) :
        o \in 0..MaxTicks, l \in Labels, sep \in Seps, b \in Bodies, c \in 0..MaxTicks}
    \cup {NoContentOutcome} \cup {RaiseOutcome(e) : e \in ProviderErrors}

\* the ones tried inside a whole session
SessionOutcomes ==
    {TextOutcome(FullObject),
     TextOutcome(Wrap(3, JsonLabel, <<NL>>, FullObject, 3)),
     TextOutcome(Wrap(3, <<"j","s">>, <<NL>>, EmptyObject, 3)),
     TextOutcome(EmptyReplies), TextOutcome(NullUrgency), TextOutcome(ArrayText),
     TextOutcome(StringText), TextOutcome(ProseText),
     NoContentOutcome, RaiseOutcome(<<"Connection error.">>)}

\* base64url data of message bodies
HiData ==  \* b'hi'
    <<"a","G","k","=">>
HtmlData ==  \* b'<b>x</b>'
    <<"P","G","I","-","e","D","w","v","Y","j","4","=">>
BlankData ==  \* b' \n'
    <<"I","A","o","=">>
BadUtf8Data ==  \* b'a\xff'
    <<"Y","f","8","=">>
BadPaddingData ==
    <<"a","G","k">>

Body(data) == [hasData |-> TRUE, data |-> data]
NoBodyData == [hasData |-> FALSE, data |-> <<>>]
Part(mime, body, parts) == [mimeType |-> mime, body |-> body, parts |-> parts]

\* the messages of the user's inbox, the most recent first
Mailbox ==
    <<[id |-> "m1", snippet |-> "hi",
       headers |-> <<[name |-> "From", value |-> "Sam"],
                     [name |-> "Subject", value |-> "Report"]>>,
       payload |-> [body |-> Body(HiData), parts |-> <<>>]],
      [id |-> "m2", snippet |-> "x", headers |-> <<>>,
       payload |-> [body |-> NoBodyData,
                    parts |-> <<Part("text/html", Body(HtmlData), <<>>)>>]],
      [id |-> "m3", snippet |-> "", headers |-> <<[name |-> "From", value |-> "Ann"]>>,
       payload |-> [body |-> NoBodyData,
                    parts |-> <<Part("text/plain", Body(BadPaddingData), <<>>),
                                Part("text/html", Body(HtmlData), <<>>)>>]]>>

\* how a call to the Gmail API or the OAuth flow may end
GmailCallOutcomes ==
    {[ok |-> TRUE, text |-> <<>>],
     [ok |-> FALSE, text |-> <<"<HttpError 403 when requesting the Gmail API>">>]}

\* the shapes of a part, and the payloads get_gmail_message_body is tried on
Datas == {HiData, HtmlData, BlankData, BadPaddingData}
LeafParts ==
    {Part(m, b, <<>>) : m \in {"text/plain", "text/html", "image/png"},
                        b \in {NoBodyData} \cup {Body(d) : d \in Datas}}
NestedParts ==
    {Part("multipart/alternative", NoBodyData, <<p>>) :
        p \in {Part(m, Body(d), <<>>) : m \in {"text/plain", "text/html"},
                                        d \in {HiData, HtmlData}}}
PartShapes == LeafParts \cup NestedParts
\* a single-part payload carries its data itself, a multi-part one in parts
Payloads ==
    {[body |-> Body(d), parts |-> <<>>] : d \in Datas \cup {BadUtf8Data}}
    \cup {[body |-> NoBodyData, parts |-> ps] :
            ps \in UNION {[1..k -> PartShapes] : k \in 0..MaxParts}}

-----------------------------------------------------------------------------
(* The script.  Streamlit runs app.py from top to bottom once per widget   *)
(* event; st.session_state is taken to be a dict that lives across runs.   *)
(* Each action below is one script run, from the event that starts it to   *)
(* the end of the script, except that a run that reaches the completion    *)
(* call stops there (AnalyzeButton) and goes on when the call ends         *)
(* (CompletionReturns).                                                    *)

ToneOptions      == <<"Professional", "Friendly", "Assertive", "Neutral">>
FormalityOptions == <<"Very formal", "Formal", "Neutral", "Informal">>
LengthOptions    == <<"Short", "Medium", "Long">>
NumOptions       == <<1, 2, 3>>

Paste == "Paste email manually"
Gmail == "Gmail inbox (local only)"

Msg(level, text) == [level |-> level, text |-> text]

Banner ==
    Msg("error", <<"OPENAI_API_KEY is not set. Please configure it in your ",
                   BT, ".env", BT, " or as a Streamlit secret.">>)
EmptyInputWarning ==
    Msg("warning",
        <<"Please paste an email or load one from Gmail before generating replies.">>)
NotConfiguredError ==
    Msg("error", <<"OpenAI client is not configured. Check your API key.">>)
LoadedSuccess ==
    Msg("success", <<"Email loaded from Gmail into the editor. ",
                     "Scroll down and click 'Analyze & generate replies'.">>)
FetchInboxInfo ==
    Msg("info", <<"Click 'Load last emails from Gmail' to fetch your inbox.">>)
ConnectError(e) == Msg("error", <<"Error while connecting to Gmail: ">> \o e)
FetchError(e)   == Msg("error", <<"Error while fetching email body: ">> \o e)

\* the values a run starts from
NoRequest ==
    [issued |-> FALSE, model |-> "", temperature |-> "", system |-> "", user |-> <<>>]
NoOutcome == [kind |-> "pending", text |-> <<>>]
NoPayload == [body |-> NoBodyData, parts |-> <<>>]
NoBodyText == [ok |-> TRUE, text |-> <<>>]

\* lines 222-259: the f-string, its literal pieces named by their lines
user_prompt(text, p) ==
    <<"<lines 223-226>">> \o text \o
    <<"<lines 226-229>", p.tone, "<line 230>", p.formality, "<line 231>", p.length,
      "<lines 231-233>", ToString(p.num_options), "<lines 233-257>",
      ToString(p.num_options), "<lines 257-259>">>

\* lines 262-269
CompletionRequest(text, p) ==
    [issued |-> TRUE, model |-> "gpt-4o-mini", temperature |-> "0.7",
     system |-> "<lines 209-219>", user |-> user_prompt(text, p)]

\* a variant of BannerShown that leaves out lines 39-43
BannerNeverShown(keySet) == <<>>

\* lines 39-43
BannerShown(keySet) == IF keySet THEN <<>> ELSE <<Banner>>

\* lines 363-386 of a run in which "Use this email" is not pressed
InboxShown(mode, messages) ==
    IF mode = Gmail /\ messages = <<>> THEN <<FetchInboxInfo>> ELSE <<>>

\* what every run starts with: nothing of the run before is kept
NewRun(ev) ==
    /\ event' = ev
    /\ callsThisRun' = 0
    /\ request' = NoRequest
    /\ outcome' = NoOutcome
    /\ result' = Unset
    /\ view' = EmptyView
    /\ pc' = "ready"

NoRaise == [ok |-> TRUE, text |-> <<>>]

NoFetch == payload' = NoPayload /\ body_text' = NoBodyText

\* a run that draws the page and does nothing else
Redraw(ev, mode) ==
    /\ NewRun(ev)
    /\ NoFetch
    /\ raised' = NoRaise
    /\ shown' = BannerShown(apiKeySet) \o InboxShown(mode, gmail_messages)

\* lines 341-346: the user edits the text area (shown in paste mode only)
EmailContent(text) ==
    /\ text # email_text
    /\ email_text' = text
    /\ Redraw("email_text", input_mode)
    /\ UNCHANGED <<apiKeySet, gmail_available, gmail_messages, input_mode, prefs>>

TextArea ==
    /\ pc = "ready"
    /\ input_mode = Paste
    /\ \E text \in EmailInputs : EmailContent(text)

\* lines 295-317: the user picks another option of a sidebar selectbox
Selectbox(p) ==
    /\ pc = "ready"
    /\ p # prefs
    /\ prefs' = p
    /\ Redraw("sidebar", input_mode)
    /\ UNCHANGED <<apiKeySet, gmail_available, email_text, gmail_messages, input_mode>>

\* the options the model's user picks among: the one at place i and the one
\* before it
Tried(options, i) == {options[i - 1], options[i]}

Tone == \E x \in Tried(ToneOptions, 2) : Selectbox([prefs EXCEPT !.tone = x])
Formality ==
    \E x \in Tried(FormalityOptions, 2) : Selectbox([prefs EXCEPT !.formality = x])
Length == \E x \in Tried(LengthOptions, 2) : Selectbox([prefs EXCEPT !.length = x])
NumberOfReplyOptions ==
    \E x \in Tried(NumOptions, 2) : Selectbox([prefs EXCEPT !.num_options = x])

\* lines 322-332: the radio; the Gmail option is there with credentials.json
EmailSource ==
    /\ pc = "ready"
    /\ \E mode \in {Paste} \cup (IF gmail_available THEN {Gmail} ELSE {}) :
        /\ mode # input_mode
        /\ input_mode' = mode
        /\ Redraw("input_mode", mode)
    /\ UNCHANGED <<apiKeySet, gmail_available, email_text, gmail_messages, prefs>>

\* header_dict.get(name, default), lines 123-131
HeaderGet(headers, name, default) ==
    IF \E i \in 1..Len(headers) : headers[i].name = name
    THEN headers[CHOOSE i \in 1..Len(headers) :
                    /\ headers[i].name = name
                    /\ \A j \in (i + 1)..Len(headers) : headers[j].name # name].value
    ELSE default

\* lines 107-136: the listing of the messages the API returned
list_gmail_messages(messages) ==
    [i \in 1..Len(messages) |->
        [id      |-> messages[i].id,
         from    |-> HeaderGet(messages[i].headers, "From", "Unknown"),
         subject |-> HeaderGet(messages[i].headers, "Subject", "(No subject)"),
         snippet |-> messages[i].snippet]]

\* lines 355-361: "Load last emails from Gmail".  service is how
\* get_gmail_service ends, listed how the API calls of list_gmail_messages
\* end, n how many messages the inbox holds then.
LoadClicked(service, listed, n) ==
    LET failed   == IF ~service.ok THEN service ELSE IF ~listed.ok THEN listed ELSE NoRaise
        messages == IF failed.ok
                    THEN list_gmail_messages(SubSeq(Mailbox, 1, n))
                    ELSE gmail_messages
    IN  /\ gmail_messages' = messages
        /\ raised' = failed
        /\ shown' = BannerShown(apiKeySet)
                    \o (IF failed.ok THEN <<>> ELSE <<ConnectError(failed.text)>>)
                    \o InboxShown(Gmail, messages)

LoadLastEmailsFromGmail ==
    /\ pc = "ready"
    /\ input_mode = Gmail
    /\ \E service \in GmailCallOutcomes, listed \in GmailCallOutcomes,
          n \in {0, Len(Mailbox)} : LoadClicked(service, listed, n)
    /\ NewRun("load")
    /\ NoFetch
    /\ UNCHANGED <<apiKeySet, gmail_available, email_text, input_mode, prefs>>

MessageById(id) == Mailbox[CHOOSE i \in 1..Len(Mailbox) : Mailbox[i].id = id]

\* a variant of UseClicked that clears the editor before it fetches
UseClickedClearingFirst(selected_msg, service, got) ==
    LET pl     == MessageById(selected_msg.id).payload
        body   == get_gmail_message_body(pl)
        failed == IF ~service.ok THEN service ELSE IF ~got.ok THEN got ELSE body
    IN  /\ payload' = IF service.ok /\ got.ok THEN pl ELSE NoPayload
        /\ body_text' = IF service.ok /\ got.ok THEN body ELSE NoBodyText
        /\ email_text' = IF failed.ok THEN body.text ELSE <<>>
        /\ raised' = IF failed.ok THEN NoRaise ELSE failed
        /\ shown' = BannerShown(apiKeySet)
                    \o <<IF failed.ok THEN LoadedSuccess ELSE FetchError(failed.text)>>

\* lines 374-384: "Use this email" on the message selected.  service is how
\* get_gmail_service ends, got how the API call of get_gmail_message_body.
UseClicked(selected_msg, service, got) ==
    LET pl     == MessageById(selected_msg.id).payload
        body   == get_gmail_message_body(pl)
        failed == IF ~service.ok THEN service ELSE IF ~got.ok THEN got ELSE body
    IN  /\ payload' = IF service.ok /\ got.ok THEN pl ELSE NoPayload
        /\ body_text' = IF service.ok /\ got.ok THEN body ELSE NoBodyText
        /\ email_text' = IF failed.ok THEN body.text ELSE email_text
        /\ raised' = IF failed.ok THEN NoRaise ELSE failed
        /\ shown' = BannerShown(apiKeySet)
                    \o <<IF failed.ok THEN LoadedSuccess ELSE FetchError(failed.text)>>

UseThisEmail ==
    /\ pc = "ready"
    /\ input_mode = Gmail
    /\ gmail_messages # <<>>
    /\ \E i \in 1..Len(gmail_messages),
          service \in GmailCallOutcomes, got \in GmailCallOutcomes :
            UseClicked(gmail_messages[i], service, got)
    /\ NewRun("use")
    /\ UNCHANGED <<apiKeySet, gmail_available, gmail_messages, input_mode, prefs>>

\* a variant of InputMissing that leaves out .strip()
InputMissingUnstripped(text) == text = <<>>

\* line 395: not email_text.strip()
InputMissing(text) == Strip(text) = <<>>

\* lines 388-407: "Analyze & generate replies", up to the completion call
AnalyzeButton ==
    /\ pc = "ready"
    /\ event' = "analyze"
    /\ outcome' = NoOutcome
    /\ result' = Unset
    /\ view' = EmptyView
    /\ NoFetch
    /\ raised' = NoRaise
    /\ IF InputMissing(email_text)
       THEN /\ shown' = BannerShown(apiKeySet) \o InboxShown(input_mode, gmail_messages)
                        \o <<EmptyInputWarning>>
            /\ request' = NoRequest
            /\ callsThisRun' = 0
            /\ pc' = "ready"
       ELSE IF ~apiKeySet
       THEN /\ shown' = BannerShown(apiKeySet) \o InboxShown(input_mode, gmail_messages)
                        \o <<NotConfiguredError>>
            /\ request' = NoRequest
            /\ callsThisRun' = 0
            /\ pc' = "ready"
       ELSE /\ shown' = BannerShown(apiKeySet) \o InboxShown(input_mode, gmail_messages)
            /\ request' = CompletionRequest(email_text, prefs)
            /\ callsThisRun' = 1
            /\ pc' = "calling"
    /\ UNCHANGED <<apiKeySet, gmail_available, email_text, gmail_messages,
                   input_mode, prefs>>

\* lines 409-447: what the run shows of the value analyze_and_reply returned
ResultShown(res) ==
    IF res.t = "str" THEN <<Msg("error", res.s)>>
    ELSE IF ShowAnalysis(res).warned THEN <<NoReplyWarning>>
    ELSE <<>>

\* a variant of Completed that calls the provider once more after an error
CompletedWithRetry(o) ==
    /\ outcome' = o
    /\ result' = AnalyzeReturn(o)
    /\ IF result'.t = "str" /\ callsThisRun < 2
       THEN /\ view' = EmptyView
            /\ shown' = shown
            /\ request' = request
            /\ callsThisRun' = callsThisRun + 1
            /\ pc' = "calling"
       ELSE /\ view' = IF result'.t = "str" THEN EmptyView ELSE ShowAnalysis(result')
            /\ shown' = shown \o ResultShown(result')
            /\ request' = NoRequest
            /\ callsThisRun' = callsThisRun
            /\ pc' = "ready"
    /\ UNCHANGED <<apiKeySet, gmail_available, email_text, gmail_messages,
                   input_mode, prefs, event, raised, payload, body_text>>

\* lines 271-289 and 409-470: the completion call ends and the run goes on
Completed(o) ==
    /\ outcome' = o
    /\ result' = AnalyzeReturn(o)
    /\ view' = IF result'.t = "str" THEN EmptyView ELSE ShowAnalysis(result')
    /\ shown' = shown \o ResultShown(result')
    /\ request' = NoRequest
    /\ pc' = "ready"
    /\ UNCHANGED <<apiKeySet, gmail_available, email_text, gmail_messages,
                   input_mode, prefs, event, callsThisRun, raised, payload, body_text>>

CompletionReturns == pc = "calling" /\ \E o \in SessionOutcomes : Completed(o)

InitSession ==
    /\ email_text = <<>>
    /\ gmail_messages = <<>>
    /\ input_mode = Paste
    /\ prefs = [tone |-> ToneOptions[1], formality |-> FormalityOptions[2],
                length |-> LengthOptions[2], num_options |-> NumOptions[2]]
    /\ pc = "ready"
    /\ event = "start"
    /\ request = NoRequest
    /\ callsThisRun = 0
    /\ outcome = NoOutcome
    /\ result = Unset
    /\ view = EmptyView
    /\ shown = BannerShown(apiKeySet)
    /\ raised = NoRaise
    /\ payload = NoPayload
    /\ body_text = NoBodyText

Init ==
    /\ apiKeySet \in BOOLEAN
    /\ gmail_available \in BOOLEAN
    /\ InitSession

Next ==
    \/ TextArea
    \/ Tone
    \/ Formality
    \/ Length
    \/ NumberOfReplyOptions
    \/ EmailSource
    \/ LoadLastEmailsFromGmail
    \/ UseThisEmail
    \/ AnalyzeButton
    \/ CompletionReturns

Spec == Init /\ [][Next]_vars

-----------------------------------------------------------------------------
(* One attempt, on every way the completion call may end                   *)

AnyCompletionReturns == pc = "calling" /\ \E o \in AllOutcomes : Completed(o)

InitAttempt ==
    /\ apiKeySet \in BOOLEAN
    /\ gmail_available = FALSE
    /\ InitSession

NextAttempt ==
    \/ TextArea
    \/ AnalyzeButton
    \/ AnyCompletionReturns

SpecAttempt == InitAttempt /\ [][NextAttempt]_vars

-----------------------------------------------------------------------------
(* get_gmail_message_body on every payload of Payloads                     *)

InitFetch ==
    /\ apiKeySet = TRUE
    /\ gmail_available = TRUE
    /\ email_text = <<>>
    /\ gmail_messages = <<>>
    /\ input_mode = Gmail
    /\ prefs = [tone |-> ToneOptions[1], formality |-> FormalityOptions[2],
                length |-> LengthOptions[2], num_options |-> NumOptions[2]]
    /\ pc = "fetching"
    /\ event = "use"
    /\ request = NoRequest
    /\ callsThisRun = 0
    /\ outcome = NoOutcome
    /\ result = Unset
    /\ view = EmptyView
    /\ shown = <<>>
    /\ raised = NoRaise
    /\ payload \in Payloads
    /\ body_text = NoBodyText

\* line 377: the call returns (or raises, body_text not ok)
FetchBody ==
    /\ pc = "fetching"
    /\ body_text' = get_gmail_message_body(payload)
    /\ pc' = "ready"
    /\ UNCHANGED <<apiKeySet, gmail_available, email_text, gmail_messages, input_mode,
                   prefs, event, request, callsThisRun, outcome, result, view, shown,
                   raised, payload>>

NextFetch == FetchBody

SpecFetch == InitFetch /\ [][NextFetch]_vars

-----------------------------------------------------------------------------
(* Properties                                                              *)

\* whether text t occurs in text s
Contains(s, t) ==
    \E i \in 0..(Len(s) - Len(t)) : SubSeq(s, i + 1, i + Len(t)) = t

\* how many of the messages on the page are in the set
Count(page, msgs) == Cardinality({i \in DOMAIN page : page[i] \in msgs})

\* the error messages an attempt put on the page (the banner is not one)
AttemptErrors(page) ==
    {i \in DOMAIN page : page[i].level = "error" /\ page[i] # Banner}

\* the run is a submit whose completion call has ended
AttemptEnded == event = "analyze" /\ pc = "ready" /\ outcome # NoOutcome

\* neither json.loads of lines 275 and 284 accepts the text
Malformed(text) ==
    /\ ~JsonLoads(Strip(text)).ok
    /\ ~JsonLoads(Cleaned(Strip(text))).ok

\* C1: a submit with blank (empty or whitespace-only) email text, or with the
\* model credential missing, makes no completion call and shows no analysis:
\* the run ends with the validation warning or the configuration error as its
\* last message; a completion call is only ever in flight for a submit with
\* non-blank text and the credential present.
C1_NoCallWithoutInput ==
    /\ request.issued =>
            /\ event = "analyze"
            /\ Strip(email_text) # <<>>
            /\ apiKeySet
    /\ callsThisRun > 0 => (event = "analyze" /\ Strip(email_text) # <<>> /\ apiKeySet)
    /\ (event = "analyze" /\ (Strip(email_text) = <<>> \/ ~apiKeySet)) =>
            /\ pc = "ready"
            /\ callsThisRun = 0
            /\ ~request.issued
            /\ outcome = NoOutcome
            /\ result = Unset
            /\ view = EmptyView
            /\ shown # <<>>
            /\ shown[Len(shown)] = (IF Strip(email_text) = <<>>
                                    THEN EmptyInputWarning ELSE NotConfiguredError)
            /\ Count(shown, {EmptyInputWarning, NotConfiguredError}) = 1

\* a submit of whitespace-only text, the credential present
C1_Witness ==
    /\ event = "analyze"
    /\ apiKeySet
    /\ email_text = <<SP, SP>>
    /\ shown[Len(shown)] = EmptyInputWarning

\* C2: when the response text is valid JSON neither as it is nor after the
\* fence is stripped, analyze_and_reply returns an error value (a str), never
\* a partial object: the attempt ends with that error shown and no analysis.
C2_MalformedFails ==
    (AttemptEnded /\ outcome.kind = "text" /\ Malformed(outcome.text)) =>
        /\ result.t = "str"
        /\ view = EmptyView
        /\ shown[Len(shown)] = Msg("error", result.s)
        /\ Cardinality(AttemptErrors(shown)) = 1
        /\ NoReplyWarning \notin {shown[i] : i \in DOMAIN shown}

\* a fenced, labelled response whose inside is cut short
C2_Witness ==
    /\ AttemptEnded
    /\ outcome = TextOutcome(Wrap(Len(Fence), JsonLabel, <<NL>>, CutObject, Len(Fence)))
    /\ result.t = "str"

\* the response texts that are a JSON object
ObjectBodies == {b \in Bodies : JsonLoads(b).ok /\ JsonLoads(b).v.t = "dict"}

\* the value returned for a fenced J is the one returned for J alone, for
\* every label of the set
FenceInvisible(labels) ==
    AttemptEnded =>
        \A b \in ObjectBodies, l \in labels, sep \in Seps :
            outcome = TextOutcome(Wrap(Len(Fence), l, sep, b, Len(Fence)))
                => result = AnalyzeReturn(TextOutcome(b))

\* C3, as the specification states it: for every valid JSON object text J,
\* J inside a triple-backtick fence with any language label gives the result
\* that J alone gives.
C3_AnyLabel == FenceInvisible(Labels)

\* C3, as the code has it: the same, for a fence with no label or with the
\* label json in any letter case.
C3_JsonLabel == FenceInvisible({l \in Labels : l = <<>> \/ Lower(l) = JsonLabel})

\* a fence labelled Json around a full object
C3_Witness ==
    /\ AttemptEnded
    /\ outcome = TextOutcome(Wrap(Len(Fence), <<"J","s","o","n">>, <<NL>>,
                                  FullObject, Len(Fence)))
    /\ result = JsonLoads(FullObject).v

\* C4, as the specification states it: the error value of a malformed
\* response is not the error value of a failed call (it does not start with
\* the words line 289 puts before a provider's error) and the raw response
\* text is part of it.
C4_MalformedDistinct ==
    (AttemptEnded /\ outcome.kind = "text" /\ Malformed(outcome.text)) =>
        /\ result.t = "str"
        /\ ~StartsWith(result.s, ApiErrorText(<<>>))
        /\ Contains(result.s, Strip(outcome.text))

\* C5: in a display that reaches the summary (line 431), a summary the
\* object lacks is the empty text, action_items and replies it lacks are the
\* empty list, none of them is None or unset, and with no replies the
\* warning is shown and no reply panel is.
C5_MissingSectionsEmpty ==
    (AttemptEnded /\ result.t = "dict" /\ view.summary # Unset) =>
        /\ view.summary.t # "None"
        /\ view.action_items.t \notin {"None", "unset"}
        /\ ~HasKey(result, K_summary) => view.summary = StrV(<<>>)
        /\ ~HasKey(result, K_action_items) =>
                (view.action_items = ListV(<<>>) /\ view.items = <<>>)
        /\ view.replies # Unset =>
                /\ view.replies.t # "None"
                /\ ~HasKey(result, K_replies) => view.replies = ListV(<<>>)
                /\ view.replies = ListV(<<>>) =>
                        /\ view.warned
                        /\ view.panels = <<>>
                        /\ view.exc = ""
                        /\ shown[Len(shown)] = NoReplyWarning
                /\ view.warned => view.panels = <<>>

\* an object with the four metrics and nothing else
C5_Witness ==
    /\ AttemptEnded
    /\ outcome = TextOutcome(PartialObject)
    /\ ~HasKey(result, K_replies)
    /\ view.warned

\* a run starts here with a submit that passes validation
PassingSubmit ==
    pc = "ready" /\ event' = "analyze" /\ Strip(email_text) # <<>> /\ apiKeySet

\* C6: a submit that passes validation issues exactly one completion call;
\* every other run (a failed validation, an edit of the text, a change of a
\* preference or of the input mode, an inbox button) issues none; and when
\* the call ends, in an error or not, no further call is issued.
C6_OneCallPerSubmit ==
    /\ [](callsThisRun <= 1 /\ (request.issued <=> pc = "calling"))
    /\ [][/\ PassingSubmit =>
                (callsThisRun' = 1 /\ request'.issued /\ pc' = "calling")
          /\ (pc = "ready" /\ ~PassingSubmit) =>
                (callsThisRun' = 0 /\ ~request'.issued /\ pc' = "ready")
          /\ pc = "calling" =>
                (callsThisRun' = callsThisRun /\ ~request'.issued /\ pc' = "ready")
         ]_vars

\* an attempt that ended in an error, one call made
C6_Witness ==
    /\ AttemptEnded
    /\ result.t = "str"
    /\ callsThisRun = 1
    /\ ~request.issued

RECURSIVE PartsOf(_)
\* the parts of a message at every depth
PartsOf(parts) ==
    UNION {{parts[i]} \cup PartsOf(parts[i].parts) : i \in DOMAIN parts}

\* the decoded texts of the message's parts of the type
PartTexts(pl, mime) ==
    {decode_data(p.body.data).text :
        p \in {q \in PartsOf(pl.parts) : HasData(q, mime) /\ decode_data(q.body.data).ok}}

\* C7, as the specification states it: get_gmail_message_body returns the
\* decoded payload body of a single-part message, the decoded text of a
\* text/plain part of a message that has one, and the decoded text of a
\* text/html part of a multi-part message that has one and no text/plain part.
C7_PlainThenHtml ==
    (pc = "ready" /\ event = "use" /\ body_text.ok) =>
        IF payload.parts = <<>>
        THEN payload.body.hasData => body_text.text = decode_data(payload.body.data).text
        ELSE IF PartTexts(payload, "text/plain") # {}
        THEN body_text.text \in PartTexts(payload, "text/plain")
        ELSE PartTexts(payload, "text/html") # {} =>
                body_text.text \in PartTexts(payload, "text/html")

\* every error value analyze_and_reply returns is on the page as one error
ReturnedErrorShownOnce ==
    result.t = "str" =>
        /\ shown[Len(shown)] = Msg("error", result.s)
        /\ Cardinality(AttemptErrors(shown)) = 1

\* C8, as the specification states it: with the credential missing the page
\* carries exactly one configuration message, the banner, whatever is
\* attempted; and every error of an attempt is shown as exactly one message.
C8_OneConfigMessage ==
    /\ ~apiKeySet =>
            (Count(shown, {Banner, NotConfiguredError}) = 1 /\ shown[1] = Banner)
    /\ ReturnedErrorShownOnce

\* C8, as the code has it: with the credential missing the banner is on the
\* page once in every run; a submit of non-blank text adds one configuration
\* error of its own, a submit of blank text only the validation warning, no
\* other run adds anything; with the credential present neither is shown;
\* and every error value returned is shown as exactly one error message.
C8_BannerAndAttemptError ==
    /\ ~apiKeySet =>
            /\ Count(shown, {Banner}) = 1
            /\ shown[1] = Banner
            /\ Count(shown, {NotConfiguredError}) =
                    (IF event = "analyze" /\ Strip(email_text) # <<>> THEN 1 ELSE 0)
            /\ (event = "analyze" /\ Strip(email_text) = <<>>) =>
                    Count(shown, {EmptyInputWarning}) = 1
    /\ apiKeySet => Count(shown, {Banner, NotConfiguredError}) = 0
    /\ ReturnedErrorShownOnce

\* a submit of non-blank text, the credential missing
C8_Witness ==
    /\ ~apiKeySet
    /\ event = "analyze"
    /\ Strip(email_text) # <<>>
    /\ shown = <<Banner, NotConfiguredError>>

\* C9, as the specification states it: every submit whose call has ended
\* either shows the analysis or shows an error, no exception leaves the
\* handler, and a classification field the object lacks is shown as N/A.
C9_SucceededOrFailed ==
    AttemptEnded =>
        /\ view.exc = ""
        /\ (result.t = "str") # (result.t # "str" /\ view.summary # Unset)
        /\ result.t = "dict" =>
                /\ ~HasKey(result, K_language)  => view.language = NA
                /\ ~HasKey(result, K_urgency)   => view.urgency = NA
                /\ ~HasKey(result, K_sentiment) => view.sentiment = NA
                /\ ~HasKey(result, K_category)  => view.category = NA

\* the page carries an inline error of the inbox code
InboxErrorShown(page) ==
    \E i \in DOMAIN page :
        \E e \in {g.text : g \in GmailCallOutcomes}
                 \cup {<<"Incorrect padding">>} :
            page[i] \in {ConnectError(e), FetchError(e)}

\* C10: a run in which get_gmail_service, the listing or the fetch of a body
\* raises leaves email_text and gmail_messages as they were and shows an
\* inline error; email_text changes only by an edit of the text area or by a
\* fetch that succeeds; a completion request carries the email text of the
\* session as it is then; and a submit is possible after every run.
C10_InboxFailureKeepsState ==
    /\ [](pc = "ready" => ENABLED AnalyzeButton)
    /\ [][/\ ~raised'.ok =>
                /\ event' \in {"load", "use"}
                /\ email_text' = email_text
                /\ gmail_messages' = gmail_messages
                /\ InboxErrorShown(shown')
                /\ pc' = "ready"
          /\ email_text' # email_text =>
                \/ event' = "email_text"
                \/ /\ event' = "use"
                   /\ raised'.ok
                   /\ email_text' = body_text'.text
                   /\ shown'[Len(shown')] = LoadedSuccess
          /\ gmail_messages' # gmail_messages => (event' = "load" /\ raised'.ok)
          /\ request'.issued =>
                request'.user = user_prompt(email_text, prefs)
         ]_vars

\* a fetch that failed with text in the editor
C10_Witness ==
    /\ event = "use"
    /\ ~raised.ok
    /\ email_text # <<>>
    /\ gmail_messages # <<>>
    /\ shown[Len(shown)] = FetchError(raised.text)

====
